---- MODULE Spec2Model ----
(***************************************************************************)
(* A model of refcycle's directed-graph engine: the AnnotatedGraph         *)
(* representation (annotated_graph.py) and the algorithms of               *)
(* IDirectedGraph (i_directed_graph.py): strongly connected components,    *)
(* descendants / ancestors, difference, intersection, and the JSON         *)
(* export / import of annotated graphs.                                    *)
(*                                                                         *)
(* Python lists are sequences; list positions are 0-based in the code and  *)
(* are kept 0-based in `index` and `boundaries`, so stack[i:] is           *)
(* SubSeq(stack, i + 1, Len(stack)).                                       *)
(***************************************************************************)
EXTENDS Integers, Sequences, FiniteSets, TLC

\* Bounds of the model.
NumVertices == 3
MaxEdges == 3
MaxGenerations == 1
MaxJsonVertices == 2
MaxJsonEdges == 2

\* Edges of the common graph that two induced subgraphs are taken from.
MaxCommonEdges == 2

\* Vertices and edges of the graphs that calls are run to completion on.
MaxRunVertices == 2
MaxRunEdges == 3

VARIABLES
    g,          \* the operand graph (self)
    h,          \* the other operand of g - h and g & h
    subset,     \* the vertex list handed to complete_subgraph_on_vertices
    op,         \* the operation called ("" before the call)
    pc,         \* position of the running operation
    vi,         \* position of `for v in self.vertices` (1-based)
    to_do,      \* SCC work stack of (operation_type, id_v, v)
    stack,      \* SCC: open path; traversal: visited vertices in pop order
    index,      \* SCC: id -> position on stack at discovery
    boundaries, \* SCC: candidate root positions
    identified, \* SCC: ids already assigned to a component
    sccs,       \* SCC: finished components (lists of vertices)
    steps,      \* SCC: the (operation_type, id_v) popped from to_do so far
    start,      \* traversal: the start vertex
    generations,\* traversal: the generations keyword of the call (-1: not passed)
    visited,    \* traversal: set of ids
    to_visit,   \* traversal: work stack of vertices
    doc,        \* JSON document handed to from_json
    result,     \* graphs returned by the operation (a sequence)
    error       \* exception raised by the operation ("" when none)

vars == <<g, h, subset, op, pc, vi, to_do, stack, index, boundaries, identified, sccs,
          steps, start, generations, visited, to_visit, doc, result, error>>

sccVars == <<vi, to_do, index, boundaries, identified, sccs, steps>>
travVars == <<start, generations, visited, to_visit>>
inputVars == <<h, subset, doc>>

-----------------------------------------------------------------------------
(* Sequence helpers (Python list operations).                              *)

Range(s) == {s[i] : i \in DOMAIN s}

Reverse(s) == [i \in 1..Len(s) |-> s[Len(s) + 1 - i]]

Last(s) == s[Len(s)]

ButLast(s) == SubSeq(s, 1, Len(s) - 1)

RECURSIVE FilterSeq(_, _)
\* [x for x in s if x in keep]  (keep given as a set of positions' values)
FilterSeq(s, keep) ==
    IF s = <<>> THEN <<>>
    ELSE (IF Head(s) \in keep THEN <<Head(s)>> ELSE <<>>) \o FilterSeq(Tail(s), keep)

-----------------------------------------------------------------------------
(* AnnotatedGraph.                                                         *)

AnnotatedVertex(id, annotation) == [id |-> id, annotation |-> annotation]

AnnotatedEdge(id, annotation, head, tail) ==
    [id |-> id, annotation |-> annotation, head |-> head, tail |-> tail]

\* self._obj_map = {vertex.id: vertex for vertex in vertices}: a later vertex
\* with the same id replaces an earlier one.
ObjMapOf(vertices) ==
    [k \in {vertices[i].id : i \in DOMAIN vertices} |->
        vertices[CHOOSE i \in DOMAIN vertices :
                    /\ vertices[i].id = k
                    /\ \A j \in DOMAIN vertices : vertices[j].id = k => j <= i]]

RECURSIVE EdgesWithTail(_, _)
EdgesWithTail(edges, k) ==
    IF edges = <<>> THEN <<>>
    ELSE (IF Head(edges).tail = k THEN <<Head(edges)>> ELSE <<>>)
            \o EdgesWithTail(Tail(edges), k)

RECURSIVE EdgesWithHead(_, _)
EdgesWithHead(edges, k) ==
    IF edges = <<>> THEN <<>>
    ELSE (IF Head(edges).head = k THEN <<Head(edges)>> ELSE <<>>)
            \o EdgesWithHead(Tail(edges), k)

\* self._out_edges[edge.tail].append(edge) for each edge: a defaultdict whose
\* keys are the tails that occur.
OutIndexOf(edges) ==
    [k \in {edges[i].tail : i \in DOMAIN edges} |-> EdgesWithTail(edges, k)]

\* self._in_edges[edge.head].append(edge) for each edge.
InIndexOf(edges) ==
    [k \in {edges[i].head : i \in DOMAIN edges} |-> EdgesWithHead(edges, k)]

\* AnnotatedGraph.__new__(cls, vertices, edges)
AnnotatedGraph(vertices, edges) ==
    [vertices  |-> vertices,
     edges     |-> edges,
     obj_map   |-> ObjMapOf(vertices),
     out_edges |-> OutIndexOf(edges),
     in_edges  |-> InIndexOf(edges)]

id_map(vertex) == vertex.id

\* self._obj_map[edge.head]
head(G, edge) == G.obj_map[edge.head]

\* self._obj_map[edge.tail]
tail(G, edge) == G.obj_map[edge.tail]

\* self._out_edges[vertex.id]: the list returned ...
out_edges(G, vertex) ==
    IF vertex.id \in DOMAIN G.out_edges THEN G.out_edges[vertex.id] ELSE <<>>

\* ... and the graph afterwards: reading a missing key of a defaultdict(list)
\* inserts it with an empty list.
AfterOutEdges(G, vertex) ==
    IF vertex.id \in DOMAIN G.out_edges THEN G
    ELSE [G EXCEPT !.out_edges = (vertex.id :> <<>>) @@ @]

\* self._in_edges[vertex.id]
in_edges(G, vertex) ==
    IF vertex.id \in DOMAIN G.in_edges THEN G.in_edges[vertex.id] ELSE <<>>

AfterInEdges(G, vertex) ==
    IF vertex.id \in DOMAIN G.in_edges THEN G
    ELSE [G EXCEPT !.in_edges = (vertex.id :> <<>>) @@ @]

\* children(vertex): the heads of the out-edges, in edge order.
children(G, vertex) ==
    [i \in 1..Len(out_edges(G, vertex)) |-> head(G, out_edges(G, vertex)[i])]

\* parents(vertex): the tails of the in-edges, in edge order.
parents(G, vertex) ==
    [i \in 1..Len(in_edges(G, vertex)) |-> tail(G, in_edges(G, vertex)[i])]

\* The edges kept by complete_subgraph_on_vertices: a mutant that tests
\* the tail only.
InducedEdgesTailOnly(G, vertices) ==
    LET vertex_ids == {id_map(vertices[i]) : i \in DOMAIN vertices}
    IN  FilterSeq(G.edges, {e \in Range(G.edges) : e.tail \in vertex_ids})

\* edges = [edge for edge in self._edges
\*          if edge.tail in vertex_ids if edge.head in vertex_ids]
InducedEdges(G, vertices) ==
    LET vertex_ids == {id_map(vertices[i]) : i \in DOMAIN vertices}
    IN  FilterSeq(G.edges, {e \in Range(G.edges) :
                                e.tail \in vertex_ids /\ e.head \in vertex_ids})

complete_subgraph_on_vertices(G, vertices) ==
    AnnotatedGraph(vertices, InducedEdges(G, vertices))

-----------------------------------------------------------------------------
(* The graphs the operations are run on.                                   *)

VertexIds == 1..NumVertices

\* Vertices 1..n in insertion order.
VertexList(n) == [i \in 1..n |-> AnnotatedVertex(i, "v")]

\* The edge list of the (tail, head) pairs p; the edge ids are the positions.
EdgeList(p) == [i \in DOMAIN p |-> AnnotatedEdge(i, "e", p[i][2], p[i][1])]

\* G is a graph on the vertices 1..n, n <= NumVertices, with any list of at
\* most MaxEdges edges between them (parallel edges and self-loops included).
IsGraph(G) ==
    \E n \in 0..NumVertices : \E m \in 0..MaxEdges :
        \E p \in [1..m -> (1..n) \X (1..n)] :
            G = AnnotatedGraph(VertexList(n), EdgeList(p))

NoGraph == AnnotatedGraph(<<>>, <<>>)

NoVertex == AnnotatedVertex(0, "")

EmptyIndex == [k \in {} |-> 0]

NoDoc == [vertices |-> <<>>, edges |-> <<>>]

Idle ==
    /\ h = NoGraph
    /\ subset = <<>>
    /\ vi = 1
    /\ to_do = <<>>
    /\ stack = <<>>
    /\ index = EmptyIndex
    /\ boundaries = <<>>
    /\ identified = {}
    /\ sccs = <<>>
    /\ steps = <<>>
    /\ generations = -1
    /\ visited = {}
    /\ to_visit = <<>>
    /\ doc = NoDoc
    /\ result = <<>>
    /\ error = ""

-----------------------------------------------------------------------------
(* IDirectedGraph.strongly_connected_components.                           *)

Op(operation_type, id_v, v) == [op |-> operation_type, id_v |-> id_v, v |-> v]

\* Mutant: an EDGE operation for the first child only.
EdgeOpsFirstOnly(G, v) ==
    [i \in 1..(IF children(G, v) = <<>> THEN 0 ELSE 1) |->
        Op("EDGE", id_map(children(G, v)[i]), children(G, v)[i])]

\* [('EDGE', id(w), w) for w in self.children(v)]
EdgeOps(G, v) ==
    [i \in 1..Len(children(G, v)) |->
        Op("EDGE", id_map(children(G, v)[i]), children(G, v)[i])]

\* Mutant: the EDGE operations pushed without the reversal.
ScheduleNoReverse(todo, G, id_v, v) ==
    todo \o <<Op("POSTVISIT", id_v, v)>> \o EdgeOps(G, v)

\* to_do.append(('POSTVISIT', id_v, v)); to_do.extend(reversed([...]))
Schedule(todo, G, id_v, v) ==
    todo \o <<Op("POSTVISIT", id_v, v)>> \o Reverse(EdgeOps(G, v))

RECURSIVE PopWhileBelowOrEqual(_, _)
\* Mutant: the loop test taken as index[id_v] <= boundaries[-1].
PopWhileBelowOrEqual(b, i) ==
    IF b = <<>> THEN b
    ELSE IF i <= Last(b) THEN PopWhileBelowOrEqual(ButLast(b), i)
    ELSE b

RECURSIVE PopWhileBelow(_, _)
\* while index[id_v] < boundaries[-1]: boundaries.pop()
\* (reading boundaries[-1] of an empty list raises IndexError: see Underflow)
PopWhileBelow(b, i) ==
    IF b = <<>> THEN b
    ELSE IF i < Last(b) THEN PopWhileBelow(ButLast(b), i)
    ELSE b

RECURSIVE Underflow(_, _)
\* The while loop above reads the top of an empty `boundaries`.
Underflow(b, i) ==
    IF b = <<>> THEN TRUE
    ELSE IF i < Last(b) THEN Underflow(ButLast(b), i)
    ELSE FALSE

\* Mutant: the `elif id_v not in identified` test dropped.
CollapsesAlways(idx, ident, id_v) == id_v \in DOMAIN idx

\* elif id_v not in identified  (after: if id_v not in index)
Collapses(idx, ident, id_v) == id_v \in DOMAIN idx /\ id_v \notin ident

\* Mutant: the root itself left on the stack.
SccSliceAfterRoot(stk, i) == SubSeq(stk, i + 2, Len(stk))

\* scc = stack[index[id_v]:]
SccSlice(stk, i) == SubSeq(stk, i + 1, Len(stk))

\* Mutant: the finished component put in front.
SccsPrepend(list, scc) == <<scc>> \o list

\* sccs.append(scc)
SccsAppend(list, scc) == Append(list, scc)

\* for v in self.vertices: ... if id_v not in index: to_do = [('VISIT', id_v, v)]
SccFor ==
    /\ pc = "scc_for"
    /\ vi <= Len(g.vertices)
    /\ LET v == g.vertices[vi]
           id_v == id_map(v)
       IN  IF id_v \notin DOMAIN index
           THEN /\ to_do' = <<Op("VISIT", id_v, v)>>
                /\ pc' = "scc_while"
           ELSE /\ to_do' = to_do
                /\ pc' = "scc_for"
    /\ vi' = vi + 1
    /\ UNCHANGED <<g, inputVars, op, stack, index, boundaries, identified, sccs,
                   steps, travVars, result, error>>

\* operation_type == 'VISIT'
SccVisit ==
    /\ pc = "scc_while"
    /\ to_do # <<>>
    /\ Last(to_do).op = "VISIT"
    /\ LET id_v == Last(to_do).id_v
           v == Last(to_do).v
       IN  /\ index' = [k \in DOMAIN index \cup {id_v} |->
                            IF k = id_v THEN Len(stack) ELSE index[k]]
           /\ stack' = Append(stack, v)
           /\ boundaries' = Append(boundaries, Len(stack))
           /\ to_do' = Schedule(ButLast(to_do), g, id_v, v)
           /\ g' = AfterOutEdges(g, v)
    /\ pc' = IF to_do' = <<>> THEN "scc_for" ELSE "scc_while"
    /\ steps' = Append(steps, <<"VISIT", Last(to_do).id_v>>)
    /\ UNCHANGED <<inputVars, op, vi, identified, sccs, travVars, result, error>>

\* operation_type == 'EDGE'
SccEdge ==
    /\ pc = "scc_while"
    /\ to_do # <<>>
    /\ Last(to_do).op = "EDGE"
    /\ LET id_v == Last(to_do).id_v
           v == Last(to_do).v
       IN  IF id_v \notin DOMAIN index
           THEN /\ to_do' = Append(ButLast(to_do), Op("VISIT", id_v, v))
                /\ UNCHANGED <<boundaries, error, pc>>
           ELSE IF Collapses(index, identified, id_v)
           THEN IF Underflow(boundaries, index[id_v])
                THEN /\ error' = "IndexError"
                     /\ pc' = "done"
                     /\ boundaries' = <<>>
                     /\ to_do' = ButLast(to_do)
                ELSE /\ boundaries' = PopWhileBelow(boundaries, index[id_v])
                     /\ to_do' = ButLast(to_do)
                     /\ pc' = IF to_do' = <<>> THEN "scc_for" ELSE "scc_while"
                     /\ error' = error
           ELSE /\ to_do' = ButLast(to_do)
                /\ pc' = IF to_do' = <<>> THEN "scc_for" ELSE "scc_while"
                /\ UNCHANGED <<boundaries, error>>
    /\ steps' = Append(steps, <<"EDGE", Last(to_do).id_v>>)
    /\ UNCHANGED <<g, inputVars, op, vi, stack, index, identified, sccs, travVars, result>>

\* operation_type == 'POSTVISIT'
SccPostVisit ==
    /\ pc = "scc_while"
    /\ to_do # <<>>
    /\ Last(to_do).op = "POSTVISIT"
    /\ LET id_v == Last(to_do).id_v
       IN  IF boundaries = <<>>
           THEN /\ error' = "IndexError"
                /\ pc' = "done"
                /\ to_do' = ButLast(to_do)
                /\ UNCHANGED <<boundaries, stack, identified, sccs>>
           ELSE /\ to_do' = ButLast(to_do)
                /\ pc' = IF to_do' = <<>> THEN "scc_for" ELSE "scc_while"
                /\ error' = error
                /\ IF Last(boundaries) = index[id_v]
                   THEN LET scc == SccSlice(stack, index[id_v])
                        IN  /\ boundaries' = ButLast(boundaries)
                            /\ stack' = SubSeq(stack, 1, index[id_v])
                            /\ identified' = identified \cup
                                    {id_map(scc[i]) : i \in DOMAIN scc}
                            /\ sccs' = SccsAppend(sccs, scc)
                   ELSE UNCHANGED <<boundaries, stack, identified, sccs>>
    /\ steps' = Append(steps, <<"POSTVISIT", Last(to_do).id_v>>)
    /\ UNCHANGED <<g, inputVars, op, vi, index, travVars, result>>

\* return map(self.complete_subgraph_on_vertices, sccs)
SccReturn ==
    /\ pc = "scc_for"
    /\ vi > Len(g.vertices)
    /\ result' = [i \in 1..Len(sccs) |-> complete_subgraph_on_vertices(g, sccs[i])]
    /\ pc' = "done"
    /\ UNCHANGED <<g, inputVars, op, sccVars, stack, travVars, error>>

SccInit ==
    /\ IsGraph(g)
    /\ op = "strongly_connected_components"
    /\ pc = "scc_for"
    /\ start = NoVertex
    /\ Idle

SccNext == SccFor \/ SccVisit \/ SccEdge \/ SccPostVisit \/ SccReturn

SccSpec == SccInit /\ [][SccNext]_vars

-----------------------------------------------------------------------------
(* IDirectedGraph.descendants and IDirectedGraph.ancestors.                *)

\* def descendants(self, start) / def ancestors(self, start): the parameters
\* the signatures accept besides self.
TraversalParameters == {"start"}

\* Mutant: the unvisited neighbours replace the work stack.
PushUnvisitedOnly(tv, vis, neighbours) ==
    SelectSeq(neighbours, LAMBDA w : id_map(w) \notin vis)

\* for head in ...: if id(head) not in visited: to_visit.append(head)
PushUnvisited(tv, vis, neighbours) ==
    tv \o SelectSeq(neighbours, LAMBDA w : id_map(w) \notin vis)

\* A call descendants(start) or descendants(start, generations=k): the start
\* vertex and the keyword are the caller's.
CallTraversal(name, first_pc) ==
    /\ pc = "idle"
    /\ op' = name
    /\ \E k \in -1..MaxGenerations :
        /\ generations' = k
        /\ IF k # -1 /\ "generations" \notin TraversalParameters
           THEN \* TypeError: got an unexpected keyword argument 'generations'
                /\ error' = "TypeError"
                /\ pc' = "done"
                /\ UNCHANGED <<visited, stack, to_visit>>
           ELSE /\ visited' = {}
                /\ stack' = <<>>
                /\ to_visit' = <<start>>
                /\ pc' = first_pc
                /\ error' = error
    /\ UNCHANGED <<g, inputVars, sccVars, start, result>>

Descendants == CallTraversal("descendants", "desc_while")

Ancestors == CallTraversal("ancestors", "anc_while")

\* while to_visit: vertex = to_visit.pop(); ... for head in self.children(vertex)
DescendantsStep ==
    /\ pc = "desc_while"
    /\ to_visit # <<>>
    /\ LET vertex == Last(to_visit)
       IN  /\ stack' = Append(stack, vertex)
           /\ visited' = visited \cup {id_map(vertex)}
           /\ to_visit' = PushUnvisited(ButLast(to_visit), visited',
                                        children(g, vertex))
           /\ g' = AfterOutEdges(g, vertex)
    /\ UNCHANGED <<inputVars, op, pc, sccVars, start, generations, result, error>>

\* while to_visit: vertex = to_visit.pop(); ... for head in self.parents(vertex)
AncestorsStep ==
    /\ pc = "anc_while"
    /\ to_visit # <<>>
    /\ LET vertex == Last(to_visit)
       IN  /\ stack' = Append(stack, vertex)
           /\ visited' = visited \cup {id_map(vertex)}
           /\ to_visit' = PushUnvisited(ButLast(to_visit), visited',
                                        parents(g, vertex))
           /\ g' = AfterInEdges(g, vertex)
    /\ UNCHANGED <<inputVars, op, pc, sccVars, start, generations, result, error>>

\* return self.complete_subgraph_on_vertices(stack)
TraversalReturn ==
    /\ pc \in {"desc_while", "anc_while"}
    /\ to_visit = <<>>
    /\ result' = <<complete_subgraph_on_vertices(g, stack)>>
    /\ pc' = "done"
    /\ UNCHANGED <<g, inputVars, op, sccVars, stack, travVars, error>>

TravInit ==
    /\ IsGraph(g)
    /\ start \in Range(VertexList(NumVertices))
    /\ op = ""
    /\ pc = "idle"
    /\ Idle

TravNext ==
    \/ Descendants
    \/ Ancestors
    \/ DescendantsStep
    \/ AncestorsStep
    \/ TraversalReturn

TravSpec == TravInit /\ [][TravNext]_vars

-----------------------------------------------------------------------------
(* A call of strongly_connected_components, descendants or ancestors that  *)
(* runs on: the interpreter keeps executing the loop of a running call, so *)
(* a step that stays possible is eventually taken.                         *)

\* G is a graph on the vertices 1..n, n <= MaxRunVertices, with any list of
\* at most MaxRunEdges edges between them.
IsRunGraph(G) ==
    \E n \in 0..MaxRunVertices : \E m \in 0..MaxRunEdges :
        \E p \in [1..m -> (1..n) \X (1..n)] :
            G = AnnotatedGraph(VertexList(n), EdgeList(p))

\* Either strongly_connected_components has been called on g, or one of
\* descendants and ancestors is about to be called with some start vertex.
RunInit ==
    /\ IsRunGraph(g)
    /\ \/ /\ op = "strongly_connected_components"
          /\ pc = "scc_for"
          /\ start = NoVertex
       \/ /\ op = ""
          /\ pc = "idle"
          /\ start \in Range(VertexList(MaxRunVertices))
    /\ Idle

RunNext == SccNext \/ TravNext

RunSpec == RunInit /\ [][RunNext]_vars /\ WF_vars(RunNext)

-----------------------------------------------------------------------------
(* complete_subgraph_on_vertices, __sub__ and __and__ called on g.         *)

\* Mutant: the test of __and__ (`in`) used in __sub__.
DifferenceVerticesIn(G, H) ==
    LET other_vertices == {id_map(H.vertices[i]) : i \in DOMAIN H.vertices}
    IN  SelectSeq(G.vertices, LAMBDA v : id_map(v) \in other_vertices)

\* difference = [v for v in self.vertices if id(v) not in other_vertices]
DifferenceVertices(G, H) ==
    LET other_vertices == {id_map(H.vertices[i]) : i \in DOMAIN H.vertices}
    IN  SelectSeq(G.vertices, LAMBDA v : id_map(v) \notin other_vertices)

\* Mutant: the loop runs over other.vertices and tests against self's ids.
IntersectionVerticesOfOther(G, H) ==
    LET self_vertices == {id_map(G.vertices[i]) : i \in DOMAIN G.vertices}
    IN  SelectSeq(H.vertices, LAMBDA v : id_map(v) \in self_vertices)

\* Mutant: the membership test negated.
IntersectionVerticesNotIn(G, H) ==
    LET other_vertices == {id_map(H.vertices[i]) : i \in DOMAIN H.vertices}
    IN  SelectSeq(G.vertices, LAMBDA v : id_map(v) \notin other_vertices)

\* intersection = [v for v in self.vertices if id(v) in other_vertices]
IntersectionVertices(G, H) ==
    LET other_vertices == {id_map(H.vertices[i]) : i \in DOMAIN H.vertices}
    IN  SelectSeq(G.vertices, LAMBDA v : id_map(v) \in other_vertices)

\* IDirectedGraph.__sub__(self, other)
sub(G, H) == complete_subgraph_on_vertices(G, DifferenceVertices(G, H))

\* IDirectedGraph.__and__(self, other)
and(G, H) == complete_subgraph_on_vertices(G, IntersectionVertices(G, H))

\* The vertices of VertexList(NumVertices) with an id in ids, with the
\* annotation a, in ascending or descending order of id.
VerticesOf(ids, a, descending) ==
    LET up == SelectSeq([i \in 1..NumVertices |-> AnnotatedVertex(i, a)],
                        LAMBDA v : v.id \in ids)
    IN  IF descending THEN Reverse(up) ELSE up

\* H is another graph with the same id_map: vertex objects of its own (their
\* annotation is "w") on any set of ids, in descending order, with an edge of
\* its own from its first to its last vertex.
IsOtherGraph(H) ==
    \E ids \in SUBSET VertexIds :
        LET vs == VerticesOf(ids, "w", TRUE)
        IN  H = AnnotatedGraph(vs,
                    IF vs # <<>>
                    THEN <<AnnotatedEdge(1, "f", vs[Len(vs)].id, vs[1].id)>>
                    ELSE <<>>)

\* g - h
Sub ==
    /\ pc = "idle"
    /\ IsOtherGraph(h')
    /\ op' = "sub"
    /\ result' = <<sub(g, h')>>
    /\ pc' = "done"
    /\ UNCHANGED <<g, subset, doc, sccVars, stack, travVars, error>>

\* g & h
And ==
    /\ pc = "idle"
    /\ IsOtherGraph(h')
    /\ op' = "and"
    /\ result' = <<and(g, h')>>
    /\ pc' = "done"
    /\ UNCHANGED <<g, subset, doc, sccVars, stack, travVars, error>>

\* g.complete_subgraph_on_vertices(subset): the caller's list holds vertices
\* of g or not, in any order.
CompleteSubgraph ==
    /\ pc = "idle"
    /\ \E ids \in SUBSET VertexIds : \E descending \in BOOLEAN :
          subset' = VerticesOf(ids, "v", descending)
    /\ op' = "complete_subgraph_on_vertices"
    /\ result' = <<complete_subgraph_on_vertices(g, subset')>>
    /\ pc' = "done"
    /\ UNCHANGED <<g, h, doc, sccVars, stack, travVars, error>>

AlgInit ==
    /\ IsGraph(g)
    /\ op = ""
    /\ pc = "idle"
    /\ start = NoVertex
    /\ Idle

AlgNext == Sub \/ And

AlgSpec == AlgInit /\ [][AlgNext]_vars

SubgraphNext == CompleteSubgraph

SubgraphSpec == AlgInit /\ [][SubgraphNext]_vars

-----------------------------------------------------------------------------
(* JSON serialization: export_json and from_json.                          *)

\* JSON values: json.dumps writes a Python int as a number and a Python str
\* as a string; json.loads reads them back.
JsonNumber(n) == [t |-> "number", n |-> n, s |-> ""]

JsonString(str) == [t |-> "string", n |-> 0, s |-> str]

JsonLoad(j) == IF j.t = "number" THEN j.n ELSE j.s

\* {'id': vertex.id, 'annotation': vertex.annotation}
ExportVertex(vertex) ==
    [id |-> JsonNumber(vertex.id), annotation |-> JsonString(vertex.annotation)]

\* {'id': edge.id, 'annotation': edge.annotation, 'head': edge.head, 'tail': edge.tail}
ExportEdge(edge) ==
    [id |-> JsonNumber(edge.id), annotation |-> JsonString(edge.annotation),
     head |-> JsonNumber(edge.head), tail |-> JsonNumber(edge.tail)]

\* AnnotatedGraph.export_json
export_json(G) ==
    [vertices |-> [i \in DOMAIN G.vertices |-> ExportVertex(G.vertices[i])],
     edges    |-> [i \in DOMAIN G.edges |-> ExportEdge(G.edges[i])]]

\* AnnotatedVertex(id=vertex['id'], annotation=vertex['annotation'])
ImportVertex(vertex) ==
    AnnotatedVertex(JsonLoad(vertex.id), JsonLoad(vertex.annotation))

\* Mutant: head and tail read from each other's key.
ImportEdgeSwapped(edge) ==
    AnnotatedEdge(JsonLoad(edge.id), JsonLoad(edge.annotation),
                  JsonLoad(edge.tail), JsonLoad(edge.head))

\* AnnotatedEdge(id=edge['id'], annotation=edge['annotation'],
\*               head=edge['head'], tail=edge['tail'])
ImportEdge(edge) ==
    AnnotatedEdge(JsonLoad(edge.id), JsonLoad(edge.annotation),
                  JsonLoad(edge.head), JsonLoad(edge.tail))

\* AnnotatedGraph.from_json: no check of the document is made.
from_json(json_graph) ==
    AnnotatedGraph(
        [i \in DOMAIN json_graph.vertices |-> ImportVertex(json_graph.vertices[i])],
        [i \in DOMAIN json_graph.edges |-> ImportEdge(json_graph.edges[i])])

Annotations == {"a", "b"}

\* G is an annotated graph of at most MaxJsonVertices vertices 1..n with any
\* annotations and at most MaxJsonEdges edges with any annotations, whose
\* heads and tails are ids 1..n+1: the constructor does not check that the
\* id n+1 is a vertex.
IsJsonGraph(G) ==
    \E n \in 0..MaxJsonVertices : \E m \in 0..MaxJsonEdges :
        \E va \in [1..n -> Annotations] :
            \E es \in [1..m -> Annotations \X (1..n + 1) \X (1..n + 1)] :
                G = AnnotatedGraph(
                        [i \in 1..n |-> AnnotatedVertex(i, va[i])],
                        [i \in 1..m |->
                            AnnotatedEdge(10 + i, es[i][1], es[i][2], es[i][3])])

\* json = graph.export_json()
ExportJson ==
    /\ pc = "idle"
    /\ op' = "export_json"
    /\ doc' = export_json(g)
    /\ pc' = "exported"
    /\ UNCHANGED <<g, h, subset, sccVars, stack, travVars, result, error>>

\* reconstructed = AnnotatedGraph.from_json(json)
FromJson ==
    /\ pc = "exported"
    /\ op' = "from_json"
    /\ result' = <<from_json(doc)>>
    /\ pc' = "done"
    /\ UNCHANGED <<g, inputVars, sccVars, stack, travVars, error>>

JsonInit ==
    /\ IsJsonGraph(g)
    /\ op = ""
    /\ pc = "idle"
    /\ start = NoVertex
    /\ Idle

JsonNext == ExportJson \/ FromJson

JsonSpec == JsonInit /\ [][JsonNext]_vars

-----------------------------------------------------------------------------
(* Intersection of two complete subgraphs of a common graph, both ways.    *)

\* G is a graph on the vertices 1..n, n <= NumVertices, with any list of at
\* most MaxCommonEdges edges between them.
IsCommonGraph(G) ==
    \E n \in 0..NumVertices : \E m \in 0..MaxCommonEdges :
        \E p \in [1..m -> (1..n) \X (1..n)] :
            G = AnnotatedGraph(VertexList(n), EdgeList(p))

\* a = g.complete_subgraph_on_vertices(s1); b = g.complete_subgraph_on_vertices(s2);
\* a & b; b & a.  s1 and s2 are lists of vertices of g, s1 in descending and
\* s2 in ascending order of id.
AndBothWays ==
    /\ pc = "idle"
    /\ \E ids1, ids2 \in SUBSET {id_map(g.vertices[i]) : i \in DOMAIN g.vertices} :
          LET a == complete_subgraph_on_vertices(g, VerticesOf(ids1, "v", TRUE))
              b == complete_subgraph_on_vertices(g, VerticesOf(ids2, "v", FALSE))
          IN  result' = <<a, b, and(a, b), and(b, a)>>
    /\ op' = "and_both_ways"
    /\ pc' = "done"
    /\ UNCHANGED <<g, inputVars, sccVars, stack, travVars, error>>

CommonInit ==
    /\ IsCommonGraph(g)
    /\ op = ""
    /\ pc = "idle"
    /\ start = NoVertex
    /\ Idle

CommonNext == AndBothWays

CommonSpec == CommonInit /\ [][CommonNext]_vars

-----------------------------------------------------------------------------
(* Read accessors called directly on g, in any sequence.                   *)

\* graph.out_edges(vertex) for a vertex of the graph
OutEdgesCall ==
    /\ pc = "idle"
    /\ \E i \in DOMAIN g.vertices : g' = AfterOutEdges(g, g.vertices[i])
    /\ op' = "out_edges"
    /\ UNCHANGED <<inputVars, pc, sccVars, stack, travVars, result, error>>

\* graph.in_edges(vertex) for a vertex of the graph
InEdgesCall ==
    /\ pc = "idle"
    /\ \E i \in DOMAIN g.vertices : g' = AfterInEdges(g, g.vertices[i])
    /\ op' = "in_edges"
    /\ UNCHANGED <<inputVars, pc, sccVars, stack, travVars, result, error>>

ReadNext == OutEdgesCall \/ InEdgesCall

ReadSpec == AlgInit /\ [][ReadNext]_vars

-----------------------------------------------------------------------------
(* Reachability in the operand graph, computed from its edge list alone.   *)

VertexIdsOf(G) == {G.vertices[i].id : i \in DOMAIN G.vertices}

EdgePairsOf(G) == {<<G.edges[i].tail, G.edges[i].head>> : i \in DOMAIN G.edges}

RECURSIVE Closure(_, _)
\* The ids reachable from the set S along the pairs E (S included).
Closure(S, E) ==
    LET more == S \cup {p[2] : p \in {q \in E : q[1] \in S}}
    IN  IF more = S THEN S ELSE Closure(more, E)

Reaches(G, u, v) == v \in Closure({u}, EdgePairsOf(G))

\* The ids of the i-th returned graph.
ComponentIds(i) == VertexIdsOf(result[i])

\* The positions (component, place) at which id k is returned.
PlacesOf(k) ==
    {p \in (DOMAIN result) \X (1..NumVertices + 1) :
        /\ p[2] \in DOMAIN result[p[1]].vertices
        /\ result[p[1]].vertices[p[2]].id = k}

SccDone == pc = "done" /\ error = ""

\* C1: when strongly_connected_components() returns, the vertex sets of the
\* returned graphs partition the graph's vertex set: every vertex of the graph
\* is returned at exactly one place of exactly one component, no component is
\* empty and no component holds a vertex that is not in the graph.
C1_SccPartition ==
    pc = "done" =>
        /\ error = ""
        /\ \A i \in DOMAIN result : result[i].vertices # <<>>
        /\ \A i \in DOMAIN result : ComponentIds(i) \subseteq VertexIdsOf(g)
        /\ \A k \in VertexIdsOf(g) : Cardinality(PlacesOf(k)) = 1

\* A run that returned two components, one of them with two vertices.
C1_Witness ==
    /\ SccDone
    /\ Len(result) = 2
    /\ \E i \in DOMAIN result : Len(result[i].vertices) = 2

\* C2: two vertices are in the same returned component if and only if each
\* reaches the other along edges of the original graph.
C2_SccMutualReachability ==
    pc = "done" =>
        /\ error = ""
        /\ \A u, v \in VertexIdsOf(g) :
              (\E i \in DOMAIN result : u \in ComponentIds(i) /\ v \in ComponentIds(i))
                  <=> (Reaches(g, u, v) /\ Reaches(g, v, u))

\* A ring 1 -> 2 -> 3 -> 1 returned as a single component of all its vertices.
C2_Witness ==
    /\ SccDone
    /\ Len(g.vertices) = NumVertices
    /\ Len(g.edges) = NumVertices
    /\ \A i \in DOMAIN g.edges :
          g.edges[i].tail = i /\ g.edges[i].head = (i % NumVertices) + 1
    /\ Len(result) = 1
    /\ ComponentIds(1) = VertexIdsOf(g)

\* C3: the components are returned in reverse topological order: for every
\* edge u -> w between two different components, the component of w comes
\* earlier in the returned sequence than the component of u.
C3_SccReverseTopological ==
    pc = "done" =>
        \A e \in Range(g.edges) : \A i, j \in DOMAIN result :
            (e.tail \in ComponentIds(i) /\ e.head \in ComponentIds(j) /\ i # j)
                => j < i

\* A run that returned three components joined by edges between them.
C3_Witness ==
    /\ SccDone
    /\ Len(result) = 3
    /\ \E e1, e2 \in Range(g.edges) :
          /\ e1.tail # e1.head /\ e2.tail # e2.head
          /\ e1.tail # e2.tail

ReversePairs(E) == {<<p[2], p[1]>> : p \in E}

\* The pairs a traversal follows: the edges for descendants, the reversed
\* edges for ancestors.
FollowedPairs == IF op = "ancestors" THEN ReversePairs(EdgePairsOf(g))
                 ELSE EdgePairsOf(g)

RECURSIVE WithinHops(_, _, _)
\* The ids reachable from the set S by a path of at most k pairs of E.
WithinHops(S, E, k) ==
    IF k = 0 THEN S
    ELSE WithinHops(S \cup {p[2] : p \in {q \in E : q[1] \in S}}, E, k - 1)

TraversalDone == pc = "done" /\ op \in {"descendants", "ancestors"}

StartInGraph == id_map(start) \in VertexIdsOf(g)

\* C4: descendants(start, generations=k) and ancestors(start, generations=k),
\* k >= 0, return a graph whose vertices are exactly the vertices reachable
\* from start by a path of at most k edges in that direction.
C4_LimitedTraversal ==
    (TraversalDone /\ generations >= 0 /\ StartInGraph) =>
        /\ error = ""
        /\ Len(result) = 1
        /\ VertexIdsOf(result[1]) = WithinHops({id_map(start)}, FollowedPairs, generations)

\* C5: descendants(start) and ancestors(start) without a limit return a graph
\* whose vertex set is exactly the set reachable from start (start included)
\* along the edges, respectively against them.
C5_UnlimitedTraversal ==
    (TraversalDone /\ generations = -1 /\ StartInGraph) =>
        /\ error = ""
        /\ Len(result) = 1
        /\ VertexIdsOf(result[1]) = Closure({id_map(start)}, FollowedPairs)

\* A descendants run over a cycle that leaves a vertex of the graph out.
C5_Witness ==
    /\ TraversalDone /\ generations = -1 /\ StartInGraph /\ error = ""
    /\ op = "descendants"
    /\ Cardinality(VertexIdsOf(result[1])) = 2
    /\ Len(g.vertices) = 3
    /\ \A k \in VertexIdsOf(result[1]) : Reaches(g, k, id_map(start))

\* An ancestors run that returns start and two vertices that reach it.
C5_WitnessAncestors ==
    /\ TraversalDone /\ generations = -1 /\ StartInGraph /\ error = ""
    /\ op = "ancestors"
    /\ Cardinality(VertexIdsOf(result[1])) = 3

-----------------------------------------------------------------------------
(* Subgraphs, difference and intersection.                                 *)

\* The entries of s at the positions keep, in order of position.
AtPositions(s, keep) ==
    [j \in 1..Cardinality(keep) |->
        s[CHOOSE i \in keep : Cardinality({x \in keep : x <= i}) = j]]

\* The positions of the edges of G whose tail and head are both in ids.
EdgesWithin(G, ids) ==
    {i \in DOMAIN G.edges : G.edges[i].tail \in ids /\ G.edges[i].head \in ids}

\* The positions of the vertices of G whose id is in ids.
VerticesWithin(G, ids) == {i \in DOMAIN G.vertices : G.vertices[i].id \in ids}

SeqIds(vs) == {vs[i].id : i \in DOMAIN vs}

Returned(name) == pc = "done" /\ op = name /\ error = "" /\ Len(result) = 1

\* C6: complete_subgraph_on_vertices(S) returns a graph whose vertices are
\* exactly S and whose edges are exactly the edges of the original graph, each
\* once and in the original order, whose tail and head both lie in S.
C6_CompleteSubgraph ==
    (pc = "done" /\ op = "complete_subgraph_on_vertices") =>
        /\ Returned("complete_subgraph_on_vertices")
        /\ result[1].vertices = subset
        /\ result[1].edges = AtPositions(g.edges, EdgesWithin(g, SeqIds(subset)))

\* A subgraph on two vertices that keeps two parallel edges between them and
\* drops an edge of the graph that leaves the subset.
C6_Witness ==
    /\ Returned("complete_subgraph_on_vertices")
    /\ Len(subset) = 2
    /\ Len(g.edges) = 3
    /\ Len(result[1].edges) = 2
    /\ result[1].edges[1].tail = result[1].edges[2].tail
    /\ result[1].edges[1].head = result[1].edges[2].head
    /\ result[1].edges[1].tail # result[1].edges[1].head
    /\ \E e \in Range(g.edges) : e.tail \in SeqIds(subset) /\ e.head \notin SeqIds(subset)

\* C7: the vertices of g - h are the vertices of g whose id is not the id of a
\* vertex of h, in g's order, and its edges are the edges of g between them.
C7_Difference ==
    (pc = "done" /\ op = "sub") =>
        /\ Returned("sub")
        /\ result[1].vertices =
              AtPositions(g.vertices, VerticesWithin(g, SeqIds(g.vertices) \ SeqIds(h.vertices)))
        /\ result[1].edges =
              AtPositions(g.edges, EdgesWithin(g, SeqIds(g.vertices) \ SeqIds(h.vertices)))

\* A difference that keeps two vertices and an edge of g, where h has an edge
\* of its own.
C7_Witness ==
    /\ Returned("sub")
    /\ Len(result[1].vertices) = 2
    /\ Len(g.vertices) = 3
    /\ h.edges # <<>>
    /\ result[1].edges # <<>>
    /\ Len(result[1].edges) < Len(g.edges)

\* C8: the vertices of g & h are the vertices of g whose id is the id of some
\* vertex of h, in g's order, and its edges are the edges of g between them.
C8_Intersection ==
    (pc = "done" /\ op = "and") =>
        /\ Returned("and")
        /\ result[1].vertices =
              AtPositions(g.vertices, VerticesWithin(g, SeqIds(g.vertices) \cap SeqIds(h.vertices)))
        /\ result[1].edges =
              AtPositions(g.edges, EdgesWithin(g, SeqIds(g.vertices) \cap SeqIds(h.vertices)))

\* An intersection on two vertices that keeps an edge of g that h lacks, where
\* h has a vertex that g lacks.
C8_Witness ==
    /\ Returned("and")
    /\ Len(result[1].vertices) = 2
    /\ SeqIds(h.vertices) \ SeqIds(g.vertices) # {}
    /\ \E e \in Range(result[1].edges) :
          \A f \in Range(h.edges) : f.tail # e.tail \/ f.head # e.head

-----------------------------------------------------------------------------
(* JSON round trip.                                                        *)

DeclaredIds(d) == {JsonLoad(d.vertices[i].id) : i \in DOMAIN d.vertices}

\* Some edge of the document has a head or a tail that is not declared.
HasUndeclaredEndpoint(d) ==
    \E i \in DOMAIN d.edges :
        \/ JsonLoad(d.edges[i].head) \notin DeclaredIds(d)
        \/ JsonLoad(d.edges[i].tail) \notin DeclaredIds(d)

\* C10: from_json on a document in which some edge's head or tail is not the
\* id of a declared vertex fails with MalformedGraph and returns no graph.
C10_FromJsonRejectsUndeclared ==
    (pc = "done" /\ op = "from_json" /\ HasUndeclaredEndpoint(doc)) =>
        /\ error = "MalformedGraph"
        /\ result = <<>>

-----------------------------------------------------------------------------
(* Traversal from a vertex that is not in the graph; repeated vertices.    *)

\* G is as its constructor left it: the id-to-vertex map and the adjacency
\* indexes, key sets included, are those built from its vertex and edge lists.
AsConstructed(G) == G = AnnotatedGraph(G.vertices, G.edges)

\* C11: descendants(start) and ancestors(start) with a start vertex whose id
\* is not the id of any vertex of the graph fail with NotFound: no graph is
\* returned and the operand graph is unchanged.
C11_MissingStartNotFound ==
    (TraversalDone /\ generations = -1 /\ ~StartInGraph) =>
        /\ error = "NotFound"
        /\ result = <<>>
        /\ AsConstructed(g)

\* No two places of the vertex list vs hold the same id.
NoRepeatedId(vs) == \A i, j \in DOMAIN vs : vs[i].id = vs[j].id => i = j

\* C17: the vertex collection of the graph returned by descendants(start) and
\* ancestors(start) holds each visited vertex exactly once.
C17_TraversalVerticesOnce ==
    (TraversalDone /\ generations = -1 /\ StartInGraph) =>
        /\ error = ""
        /\ Len(result) = 1
        /\ NoRepeatedId(result[1].vertices)

-----------------------------------------------------------------------------
(* Well-formedness and immutability.                                       *)

\* Each edge's tail and head are ids of vertices of the same graph.
WellFormed(G) ==
    \A i \in DOMAIN G.edges :
        G.edges[i].tail \in VertexIdsOf(G) /\ G.edges[i].head \in VertexIdsOf(G)

\* C12: every graph a caller can observe is well-formed: each edge's tail and
\* head are the ids of vertices present in that same graph; here, for the
\* graph that from_json returns.
C12_ObservableGraphsWellFormed ==
    (pc = "done" /\ op = "from_json") =>
        \A i \in DOMAIN result : WellFormed(result[i])

\* C13: a graph is read-only after construction: no call changes g's vertex
\* list, edge list, id-to-vertex map or adjacency indexes, key sets included.
C13_GraphReadOnly == [][g' = g]_vars

-----------------------------------------------------------------------------
(* Symmetry of intersection.                                               *)

\* C14: for complete subgraphs a and b of a common graph, a & b and b & a
\* have the same vertex set and the same edge set.
C14_IntersectionSymmetric ==
    (pc = "done" /\ op = "and_both_ways") =>
        /\ Range(result[3].vertices) = Range(result[4].vertices)
        /\ Range(result[3].edges) = Range(result[4].edges)

\* Two different subgraphs, listed in different orders, whose intersection
\* has an edge, leaves out a vertex of the first and an edge of the common
\* graph.
C14_Witness ==
    /\ pc = "done" /\ op = "and_both_ways"
    /\ result[3].vertices # result[4].vertices
    /\ result[3].edges # <<>>
    /\ Len(result[3].vertices) < Len(result[1].vertices)
    /\ Len(result[3].edges) < Len(g.edges)

-----------------------------------------------------------------------------
(* The state of the SCC loop.                                              *)

StackIds == {id_map(stack[i]) : i \in DOMAIN stack}

\* The operation the loop pops next, when there is one.
NextIs(operation_type) ==
    pc = "scc_while" /\ to_do # <<>> /\ Last(to_do).op = operation_type

\* The EDGE step on top of to_do enters `while index[id_v] < boundaries[-1]`.
ReadsBoundariesInEdge ==
    /\ NextIs("EDGE")
    /\ Last(to_do).id_v \in DOMAIN index
    /\ Last(to_do).id_v \notin identified

\* C16: in every state of the SCC loop the vertex at position i of stack has
\* index i (0-based); the indexed vertices not on stack are exactly the
\* identified ones; boundaries is strictly increasing with entries that are
\* positions of stack; and boundaries is non-empty whenever its top is read
\* (EDGE to a visited, unidentified target, and every POSTVISIT), so no step
\* reads from an empty list.
C16_SccLoopInvariant ==
    /\ error = ""
    /\ \A i \in DOMAIN stack :
          /\ id_map(stack[i]) \in DOMAIN index
          /\ index[id_map(stack[i])] = i - 1
    /\ (DOMAIN index) \ StackIds = identified
    /\ \A i \in DOMAIN boundaries :
          /\ boundaries[i] \in 0..(Len(stack) - 1)
          /\ i > 1 => boundaries[i - 1] < boundaries[i]
    /\ ReadsBoundariesInEdge =>
          /\ boundaries # <<>>
          /\ ~Underflow(boundaries, index[Last(to_do).id_v])
    /\ NextIs("POSTVISIT") =>
          /\ boundaries # <<>>
          /\ Last(to_do).id_v \in DOMAIN index

\* An EDGE step back into the open path is about to pop boundaries, with two
\* vertices on the path.
C16_Witness ==
    /\ ReadsBoundariesInEdge
    /\ Len(boundaries) >= 2
    /\ index[Last(to_do).id_v] < Last(boundaries)

-----------------------------------------------------------------------------
(* The recursive path-based algorithm (Gabow 2000), children visited left  *)
(* to right, as the reference the work-stack loop is compared with.        *)

RecStart ==
    [index |-> EmptyIndex, stack |-> <<>>, boundaries |-> <<>>,
     identified |-> {}, sccs |-> <<>>, order |-> <<>>]

RECURSIVE RecContract(_, _)
\* Pop candidate roots above position i.
RecContract(b, i) ==
    IF b # <<>> /\ i < b[Len(b)] THEN RecContract(SubSeq(b, 1, Len(b) - 1), i)
    ELSE b

RECURSIVE RecVisit(_, _, _)
RECURSIVE RecChildren(_, _, _, _)
\* visit(v): enter v, handle its children in order, then close the component
\* rooted at v if v is still a candidate root.
RecVisit(G, v, st) ==
    LET here == Len(st.stack)
        entered == [index |-> [k \in DOMAIN st.index \cup {v.id} |->
                                   IF k = v.id THEN here ELSE st.index[k]],
                    stack |-> st.stack \o <<v>>,
                    boundaries |-> st.boundaries \o <<here>>,
                    identified |-> st.identified,
                    sccs |-> st.sccs,
                    order |-> st.order \o <<v.id>>]
        after == RecChildren(G, children(G, v), 1, entered)
        scc == [i \in 1..(Len(after.stack) - here) |-> after.stack[here + i]]
    IN  IF after.boundaries[Len(after.boundaries)] = here
        THEN [after EXCEPT
                !.boundaries = SubSeq(@, 1, Len(@) - 1),
                !.stack = SubSeq(@, 1, here),
                !.identified = @ \cup {scc[i].id : i \in DOMAIN scc},
                !.sccs = @ \o <<scc>>]
        ELSE after

\* for w in children (from the i-th on): visit w if it is new, contract the
\* path if w is on it.
RecChildren(G, ws, i, st) ==
    IF i > Len(ws) THEN st
    ELSE LET w == ws[i]
             next == IF w.id \notin DOMAIN st.index THEN RecVisit(G, w, st)
                     ELSE IF w.id \notin st.identified
                     THEN [st EXCEPT !.boundaries = RecContract(@, st.index[w.id])]
                     ELSE st
         IN  RecChildren(G, ws, i + 1, next)

RECURSIVE RecAll(_, _, _)
\* for v in vertices (from the i-th on): visit v if it is new.
RecAll(G, i, st) ==
    IF i > Len(G.vertices) THEN st
    ELSE RecAll(G, i + 1,
                IF G.vertices[i].id \notin DOMAIN st.index
                THEN RecVisit(G, G.vertices[i], st) ELSE st)

Recursive(G) == RecAll(G, 1, RecStart)

\* The ids in the order the loop took their VISIT steps.
DiscoveryOrder ==
    LET v == SelectSeq(steps, LAMBDA s : s[1] = "VISIT")
    IN  [i \in DOMAIN v |-> v[i][2]]

\* C15: the work-stack loop discovers the vertices in the order of the
\* recursive path-based algorithm that visits children left to right, and
\* returns the same components, in the same order, with the same vertex
\* order inside each.
C15_MatchesRecursive ==
    SccDone =>
        /\ DiscoveryOrder = Recursive(g).order
        /\ sccs = Recursive(g).sccs
        /\ result = [i \in DOMAIN Recursive(g).sccs |->
                        complete_subgraph_on_vertices(g, Recursive(g).sccs[i])]

\* A vertex with two children is discovered before both, a later vertex
\* before an earlier one, and a component of several vertices is returned
\* next to another component.
C15_Witness ==
    /\ SccDone
    /\ \E i, j \in DOMAIN DiscoveryOrder :
          i < j /\ DiscoveryOrder[i] > DiscoveryOrder[j]
    /\ \E i \in DOMAIN g.vertices :
          Cardinality(Range(children(g, g.vertices[i]))) >= 2
    /\ Len(sccs) >= 2
    /\ \E i \in DOMAIN sccs : Len(sccs[i]) >= 2

-----------------------------------------------------------------------------
(* Termination.                                                            *)

\* How many entries of the sequence s equal x.
Count(s, x) == Cardinality({i \in DOMAIN s : s[i] = x})

\* One VISIT and one POSTVISIT step for each vertex, and as many EDGE steps
\* into each vertex as the graph has edges into it: one for each edge.
OneStepEach ==
    /\ \A i \in DOMAIN g.vertices :
          /\ Count(steps, <<"VISIT", id_map(g.vertices[i])>>) = 1
          /\ Count(steps, <<"POSTVISIT", id_map(g.vertices[i])>>) = 1
          /\ Count(steps, <<"EDGE", id_map(g.vertices[i])>>) =
                 Cardinality({j \in DOMAIN g.edges :
                                 g.edges[j].head = id_map(g.vertices[i])})
    /\ Len(steps) = 2 * Len(g.vertices) + Len(g.edges)

Finished == pc = "done" /\ to_do = <<>> /\ to_visit = <<>>

\* C18: descendants, ancestors and strongly_connected_components terminate on
\* every graph, cycles, self-loops and parallel edges included: the work
\* stack eventually becomes empty and the call returns; and the SCC loop has
\* then taken one VISIT and one POSTVISIT step for each vertex and one EDGE
\* step for each edge.
C18_Terminates ==
    /\ <>Finished
    /\ [](Finished /\ op = "strongly_connected_components" => OneStepEach)

\* strongly_connected_components has returned on a graph with a pair of
\* parallel edges that lie on a cycle through two vertices.
C18_Witness ==
    /\ Finished /\ op = "strongly_connected_components"
    /\ \E i, j, k \in DOMAIN g.edges :
          /\ i # j
          /\ g.edges[i].tail = g.edges[j].tail
          /\ g.edges[i].head = g.edges[j].head
          /\ g.edges[k].tail = g.edges[i].head
          /\ g.edges[k].head = g.edges[i].tail
          /\ g.edges[k].head # g.edges[k].tail

====
